---- MODULE Spec2Model ----
(***************************************************************************)
(* The in-memory model registry (ModelManager) of backend/AIUI.py and      *)
(* backend/app.py and the request handlers that call it.  The two files    *)
(* hold the same registry up to one branch of fine_tune_model and the      *)
(* text of one message; `impl` says which file is running.                 *)
(*                                                                         *)
(* Handlers declared with `def` run on worker threads, and a background    *)
(* task runs on a worker thread after its response was sent, so handler    *)
(* and task steps interleave at every attribute read and write.            *)
(*                                                                         *)
(* Numbers: an accuracy is an integer number of thousandths (0.895 is      *)
(* 895), a random draw r in [0, 1) is an integer number of thousandths.    *)
(***************************************************************************)
EXTENDS Integers, Sequences, FiniteSets, TLC

\* ------------------------------------------------------------------------
\* Bounds of the model
\* ------------------------------------------------------------------------
\* POST /finetune requests accepted during a run.
MaxTasks == 2

\* ------------------------------------------------------------------------
\* Values
\* ------------------------------------------------------------------------
Impls == {"AIUI", "app"}

\* A dict is a function from its keys; {} is the function of no key.
EmptyDict == [k \in {} |-> ""]

\* d[k] = v  (dict item assignment: adds or overwrites one key)
DictSet(d, k, v) == [x \in (DOMAIN d) \cup {k} |-> IF x = k THEN v ELSE d[x]]

\* d.get(k): <<v>> or, for None, <<>>
DictGet(d, k) == IF k \in DOMAIN d THEN <<d[k]>> ELSE <<>>

\* Python truth of an optional string: None and "" are false.
Truthy(o) == o # <<>> /\ o[1] # ""

\* The tuning_params a request may carry (Dict[str, str]).
ParamSet == {EmptyDict, [k \in {"new_version"} |-> "2.0"], [k \in {"new_version"} |-> ""]}

\* Values of random.random(), in thousandths.
RandomDraws == {0, 999}

\* random.uniform(0.80, 0.99): the two ends, in thousandths.
AccLow == 800
AccHigh == 990

\* a + b * random(): the width taken for the upper end.
uniform_width(a, b, r) == a * 1000 + b * r

\* random.uniform(a, b) = a + (b - a) * random(), in millionths.
uniform(a, b, r) == a * 1000 + (b - a) * r

\* round(x, 3) of x in millionths, to thousandths, ties to even.
round3(x) ==
  LET q == x \div 1000
      rem == x % 1000
  IN IF rem > 500 \/ (rem = 500 /\ q % 2 = 1) THEN q + 1 ELSE q

VARIABLES impl, models, heap, accBy, tasks, rd, resp

vars == <<impl, models, heap, accBy, tasks, rd, resp>>

\* ------------------------------------------------------------------------
\* AIModel and ModelManager
\* ------------------------------------------------------------------------
\* AIModel.__init__: `metrics` is the address of the record's own new dict.
AIModel(model_id, name, version, addr) ==
  [model_id |-> model_id, name |-> name, version |-> version,
   metrics |-> addr, deployed |-> FALSE]

\* str(uuid.uuid4()): an id no record has.
uuid4(ms) == Cardinality(DOMAIN ms) + 1

\* ModelManager.add_model on the mapping ms: the mapping afterwards.
add_model(ms, name, version) ==
  LET model_id == uuid4(ms)
  IN [x \in (DOMAIN ms) \cup {model_id} |->
        IF x = model_id THEN AIModel(model_id, name, version, model_id) ELSE ms[x]]

\* A lookup that falls back to the first record: self.models.get(model_id, first).
get_model_default(ms, model_id) == IF model_id \in DOMAIN ms THEN <<model_id>> ELSE <<1>>

\* ModelManager.get_model: <<model_id>> (the record) or <<>> (None).
get_model(ms, model_id) == IF model_id \in DOMAIN ms THEN <<model_id>> ELSE <<>>

\* ModelManager.list_models: the records in insertion order.
list_models(ms) == [i \in 1..Cardinality(DOMAIN ms) |-> i]

\* model.deployed = not model.deployed
ToggleDeployed(model) == [model EXCEPT !.deployed = ~ model.deployed]

\* model.deployed = True
SetDeployed(model) == [model EXCEPT !.deployed = TRUE]

\* ModelManager.deploy_model on the record it looked up: the mapping afterwards.
deploy_model(ms, model_id) == [ms EXCEPT ![model_id] = SetDeployed(ms[model_id])]

\* The accuracy fine_tune_model stores for the draw r.
NewAccuracy(r) == round3(uniform(AccLow, AccHigh, r))

\* Whether fine_tune_model assigns model.version for these tuning_params.
\*   AIUI.py: new_version = tuning_params.get("new_version"); if new_version:
\*   app.py:  if "new_version" in tuning_params:
WritesVersion(im, tuning_params) ==
  IF im = "AIUI" THEN Truthy(DictGet(tuning_params, "new_version"))
  ELSE "new_version" \in DOMAIN tuning_params

\* A version branch that puts a rebuilt AIModel in the record's place.
UpdateVersionRebuilt(im, model, tuning_params) ==
  AIModel(model.model_id, model.name,
          IF WritesVersion(im, tuning_params) THEN tuning_params["new_version"]
          ELSE model.version,
          model.metrics)

\* The record after the version branch of fine_tune_model.
UpdateVersion(im, model, tuning_params) ==
  IF WritesVersion(im, tuning_params)
  THEN [model EXCEPT !.version = tuning_params["new_version"]]
  ELSE model

\* The message POST /finetune answers with.
StartedMessage(im) ==
  IF im = "AIUI" THEN "Fine-tuning started in background."
  ELSE "Fine-tuning started in the background."

NotFound == "Model not found"

\* ------------------------------------------------------------------------
\* State
\* ------------------------------------------------------------------------
\* The worker thread that serves GET requests, between requests.
Idle == [op |-> "idle", model_id |-> 0, ids |-> <<>>, pc |-> "idle", rows |-> <<>>]

\* What an answered request got: the registry call's outcome `ret`,
\* the HTTP status, the error detail or message, and the body's rows.
Response(op, model_id, ret, status, detail, body) ==
  [op |-> op, model_id |-> model_id, ret |-> ret, status |-> status,
   detail |-> detail, body |-> body]

\* No request was answered by the step that led here.
NoResponse == Response("none", 0, "None", 0, "", <<>>)

\* ModelManager.__init__: the two records every run starts with.  add_model
\* has no other caller, so these are the records of every reachable state.
Preloaded == add_model(add_model(EmptyDict, "Model A", "1.0"), "Model B", "1.0")

\* Ids a request may name: the ids of the registry and one it never handed out.
IdSpace == (DOMAIN Preloaded) \cup {uuid4(Preloaded)}

\* Module load: manager = ModelManager().
\*   models  the registry's mapping from id to record
\*   heap    the metrics dict at each address
\*   accBy   for each metrics dict, the task that last stored "accuracy" (0: none)
\*   tasks   the background tasks, in the order their requests were accepted
\*   rd      the worker thread serving GET requests
\*   resp    the response sent by the step that led to this state
Init ==
  /\ impl \in Impls
  /\ models = Preloaded
  /\ heap = [a \in {Preloaded[m].metrics : m \in DOMAIN Preloaded} |-> EmptyDict]
  /\ accBy = [a \in DOMAIN heap |-> 0]
  /\ tasks = <<>>
  /\ rd = Idle
  /\ resp = NoResponse


\* ------------------------------------------------------------------------
\* POST /finetune and the background task
\* ------------------------------------------------------------------------
\* A scheduled background task: the request it closes over, where its
\* fine_tune_model call stands, the record that call looked up and the error
\* it caught.
Task(model_id, tuning_params) ==
  [model_id |-> model_id, tuning_params |-> tuning_params, pc |-> "scheduled",
   model |-> <<>>, raised |-> ""]

\* A handler that looks the id up before it schedules the task.
finetune_response_checked(im, ms, model_id) ==
  IF get_model(ms, model_id) = <<>>
  THEN Response("finetune", model_id, "None", 404, NotFound, <<>>)
  ELSE Response("finetune", model_id, "None", 200, StartedMessage(im), <<>>)

\* What finetune_model / start_fine_tuning returns: it never looks at the registry.
finetune_response(im, ms, model_id) ==
  Response("finetune", model_id, "None", 200, StartedMessage(im), <<>>)

\* finetune_model / start_fine_tuning: add the task, answer "started".
post_finetune(model_id, tuning_params) ==
  /\ Len(tasks) < MaxTasks
  /\ tasks' = Append(tasks, Task(model_id, tuning_params))
  /\ resp' = finetune_response(impl, models, model_id)
  /\ UNCHANGED <<impl, models, heap, accBy, rd>>

\* fine_tune_model, first lines: look the record up; an unknown id raises
\* ValueError, which the task catches and prints.
fine_tune_lookup(t) ==
  /\ tasks[t].pc = "scheduled"
  /\ LET model == get_model(models, tasks[t].model_id)
     IN tasks' = [tasks EXCEPT ![t] =
          IF model = <<>>
          THEN [@ EXCEPT !.pc = "failed", !.raised = NotFound]
          ELSE [@ EXCEPT !.pc = "sleeping", !.model = model]]
  /\ resp' = NoResponse
  /\ UNCHANGED <<impl, models, heap, accBy, rd>>

\* fine_tune_model after time.sleep(5): model.metrics["accuracy"] = round(...)
fine_tune_write_metrics(t, r) ==
  /\ tasks[t].pc = "sleeping"
  /\ LET addr == models[tasks[t].model[1]].metrics
     IN /\ heap' = [heap EXCEPT ![addr] = DictSet(@, "accuracy", NewAccuracy(r))]
        /\ accBy' = [accBy EXCEPT ![addr] = t]
  /\ tasks' = [tasks EXCEPT ![t].pc = "wrote_metrics"]
  /\ resp' = NoResponse
  /\ UNCHANGED <<impl, models, rd>>

\* fine_tune_model, the version branch and the return.
fine_tune_write_version(t) ==
  /\ tasks[t].pc = "wrote_metrics"
  /\ models' = [models EXCEPT ![tasks[t].model[1]] =
                  UpdateVersion(impl, @, tasks[t].tuning_params)]
  /\ tasks' = [tasks EXCEPT ![t].pc = "done"]
  /\ resp' = NoResponse
  /\ UNCHANGED <<impl, heap, accBy, rd>>

\* ------------------------------------------------------------------------
\* POST /deploy/{model_id}
\* ------------------------------------------------------------------------
\* The deploy handler around ModelManager.deploy_model; wasDeployed remembers
\* the flag the call found.
post_deploy(model_id) ==
  /\ LET model == get_model(models, model_id)
     IN IF model = <<>>
        THEN /\ resp' = Response("deploy", model_id, "ValueError", 404, NotFound, <<>>)
             /\ UNCHANGED models
        ELSE /\ models' = deploy_model(models, model[1])
             /\ resp' = Response("deploy", model_id, "AIModel", 200, "deployed successfully",
                                 <<[model_id |-> models'[model[1]].model_id,
                                    name |-> models'[model[1]].name,
                                    version |-> models'[model[1]].version,
                                    deployed |-> models'[model[1]].deployed,
                                    wasDeployed |-> models[model[1]].deployed]>>)
  /\ UNCHANGED <<impl, heap, accBy, tasks, rd>>

\* ------------------------------------------------------------------------
\* GET /models, GET /models/{model_id}, GET /metrics/{model_id}
\* ------------------------------------------------------------------------
\* Tasks whose fine_tune_model call on the record has returned.
Finished(model_id) ==
  {t \in DOMAIN tasks : tasks[t].pc = "done" /\ tasks[t].model = <<model_id>>}

\* get_model_details: manager.get_model, then `if not model` -> 404.
get_model_details(model_id) ==
  /\ rd.op = "idle"
  /\ LET model == get_model(models, model_id)
     IN IF model = <<>>
        THEN /\ resp' = Response("get", model_id, "None", 404, NotFound, <<>>)
             /\ UNCHANGED rd
        ELSE /\ rd' = [op |-> "get", model_id |-> model_id, ids |-> model,
                       pc |-> "version", rows |-> <<>>]
             /\ resp' = NoResponse
  /\ UNCHANGED <<impl, models, heap, accBy, tasks>>

\* get_all_models: manager.list_models(), the list the comprehension walks.
get_all_models ==
  /\ rd.op = "idle"
  /\ rd' = [op |-> "list", model_id |-> 0, ids |-> list_models(models),
            pc |-> "version", rows |-> <<>>]
  /\ resp' = NoResponse
  /\ UNCHANGED <<impl, models, heap, accBy, tasks>>

\* The dict display reads model.model_id, model.name, model.version ...
read_version ==
  /\ rd.pc = "version"
  /\ LET model == models[rd.ids[Len(rd.rows) + 1]]
     IN rd' = [rd EXCEPT !.pc = "deployed",
                 !.rows = Append(@, [model_id |-> model.model_id, name |-> model.name,
                                     version |-> model.version, deployed |-> FALSE,
                                     metrics |-> 0,
                                     verDone |-> Finished(model.model_id)])]
  /\ resp' = NoResponse
  /\ UNCHANGED <<impl, models, heap, accBy, tasks>>

\* ... then model.deployed and model.metrics (the dict itself, not a copy).
read_deployed ==
  /\ rd.pc = "deployed"
  /\ LET n == Len(rd.rows)
         model == models[rd.ids[n]]
     IN rd' = [rd EXCEPT !.pc = IF n = Len(rd.ids) THEN "serialize" ELSE "version",
                 !.rows[n].deployed = model.deployed,
                 !.rows[n].metrics = model.metrics]
  /\ resp' = NoResponse
  /\ UNCHANGED <<impl, models, heap, accBy, tasks>>

\* The response is encoded: the contents of each metrics dict are read now.
\* With each row go the tasks that had returned when its version was read
\* (verDone) and the task whose accuracy it shows (accBy).
serialize ==
  /\ rd.pc = "serialize"
  /\ rd.op \in {"get", "list"}
  /\ resp' = Response(rd.op, rd.model_id, IF rd.op = "get" THEN "AIModel" ELSE "list",
                      200, "",
                      [i \in 1..Len(rd.rows) |->
                         [model_id |-> rd.rows[i].model_id, name |-> rd.rows[i].name,
                          version |-> rd.rows[i].version,
                          deployed |-> rd.rows[i].deployed,
                          metrics |-> heap[rd.rows[i].metrics],
                          verDone |-> rd.rows[i].verDone,
                          accBy |-> accBy[rd.rows[i].metrics]]
                      ])
  /\ rd' = Idle
  /\ UNCHANGED <<impl, models, heap, accBy, tasks>>

\* get_model_metrics, first line: manager.get_metrics returns model.metrics
\* (the record's dict itself) or raises ValueError, answered with 404.
\* `snap` remembers what the dict held when get_metrics returned it.
get_model_metrics(model_id) ==
  /\ rd.op = "idle"
  /\ LET model == get_model(models, model_id)
     IN IF model = <<>>
        THEN /\ resp' = Response("metrics", model_id, "ValueError", 404, NotFound, <<>>)
             /\ UNCHANGED rd
        ELSE /\ rd' = [op |-> "metrics", model_id |-> model_id, ids |-> model,
                       pc |-> "serialize",
                       rows |-> <<[model_id |-> model_id,
                                   metrics |-> models[model[1]].metrics,
                                   snap |-> heap[models[model[1]].metrics]]>>]
             /\ resp' = NoResponse
  /\ UNCHANGED <<impl, models, heap, accBy, tasks>>

\* get_model_metrics, the return: {"model_id": ..., "metrics": metrics} is encoded.
serialize_metrics ==
  /\ rd.pc = "serialize"
  /\ rd.op = "metrics"
  /\ resp' = Response("metrics", rd.model_id, "dict", 200, "",
                      <<[rd.rows[1] EXCEPT !.metrics = heap[rd.rows[1].metrics]]>>)
  /\ rd' = Idle
  /\ UNCHANGED <<impl, models, heap, accBy, tasks>>

Next ==
  \/ \E model_id \in IdSpace : post_deploy(model_id)
  \/ \E model_id \in IdSpace, tuning_params \in ParamSet : post_finetune(model_id, tuning_params)
  \/ \E t \in DOMAIN tasks : fine_tune_lookup(t)
  \/ \E t \in DOMAIN tasks, r \in RandomDraws : fine_tune_write_metrics(t, r)
  \/ \E t \in DOMAIN tasks : fine_tune_write_version(t)
  \/ \E model_id \in IdSpace : get_model_details(model_id)
  \/ get_all_models
  \/ read_version
  \/ read_deployed
  \/ serialize
  \/ \E model_id \in IdSpace : get_model_metrics(model_id)
  \/ serialize_metrics

Spec == Init /\ [][Next]_vars

\* Task t, once its request was accepted, takes its next step.
task_step(t) ==
  IF t \in DOMAIN tasks
  THEN \/ fine_tune_lookup(t)
       \/ \E r \in RandomDraws : fine_tune_write_metrics(t, r)
       \/ fine_tune_write_version(t)
  ELSE FALSE

\* The background runner is fair: a task that can take its next step takes it.
FairSpec == Spec /\ \A t \in 1..MaxTasks : WF_vars(task_step(t))

\* ------------------------------------------------------------------------
\* Properties
\* ------------------------------------------------------------------------
Known(model_id) == model_id \in DOMAIN models

\* Tasks whose fine_tune_model call is between its lookup and its return.
InFlight(model_id) ==
  {t \in DOMAIN tasks :
     tasks[t].model = <<model_id>> /\ tasks[t].pc \in {"sleeping", "wrote_metrics"}}

\* Task t takes a step.
Steps(t) == t \in DOMAIN tasks /\ tasks'[t] # tasks[t]

\* C1: a record's deployed flag never goes from true back to false, whatever
\* step is taken (a deploy, a read, any step of any fine-tune), and a read of
\* the flag made once it is true shows true.
C1_DeployedMonotonic ==
  [][/\ \A m \in DOMAIN models : models[m].deployed => models'[m].deployed
     /\ (rd.pc = "deployed" /\ rd' # rd /\ models[rd.ids[Len(rd.rows)]].deployed)
          => rd'.rows[Len(rd.rows)].deployed]_vars

\* C1 happens: a get answers deployed = true for a record a fine-tune has
\* run to its end on.
C1_Witness ==
  /\ resp.op = "get"
  /\ resp.status = 200
  /\ resp.body[1].deployed
  /\ Finished(resp.model_id) # {}

\* C2: no answer of get or list shows a record with the accuracy stored by a
\* fine-tune that also writes the version together with a version read before
\* that fine-tune wrote it.
C2_NoTornRead ==
  (resp.op \in {"get", "list"} /\ resp.status = 200) =>
    \A i \in DOMAIN resp.body : \A t \in DOMAIN tasks :
      ~ /\ resp.body[i].accBy = t
        /\ t \notin resp.body[i].verDone
        /\ WritesVersion(impl, tasks[t].tuning_params)
        /\ resp.body[i].version # tasks[t].tuning_params["new_version"]

\* C3: for every id, at most one fine_tune_model call is between its lookup
\* of the record and its return.
C3_OneFineTunePerRecord ==
  \A m \in DOMAIN models : Cardinality(InFlight(m)) <= 1

\* C4: when a fine-tune whose tuning_params hold a new_version entry returns,
\* the record's version is that entry's value, whatever string it is.
C4_VersionIsNewVersion ==
  [][\A t \in DOMAIN tasks :
       (/\ tasks[t].pc # "done"
        /\ tasks'[t].pc = "done"
        /\ "new_version" \in DOMAIN tasks[t].tuning_params)
       => models'[tasks[t].model[1]].version = tasks[t].tuning_params["new_version"]]_vars

\* C5: the mapping getMetrics returned is a snapshot: what the caller reads
\* from it is what the record's metrics held when getMetrics returned.
C5_MetricsSnapshot ==
  (resp.op = "metrics" /\ resp.status = 200) =>
    resp.body[1].metrics = resp.body[1].snap

\* C6 (as claimed): fineTune, deploy, get and getMetrics on an id the registry
\* does not hold all fail with ValueError "Model not found".
C6_AllRaiseNotFound ==
  /\ (resp.op \in {"deploy", "get", "metrics"} /\ ~ Known(resp.model_id))
       => (resp.ret = "ValueError" /\ resp.detail = "Model not found")
  /\ \A t \in DOMAIN tasks :
       (tasks[t].pc # "scheduled" /\ ~ Known(tasks[t].model_id))
         => (tasks[t].pc = "failed" /\ tasks[t].raised = "Model not found")

\* C6 (amended): fineTune, deploy and getMetrics on an id the registry does
\* not hold fail with ValueError "Model not found"; get returns None without
\* raising, and its handler answers 404 "Model not found".
C6_NotFound ==
  /\ (resp.op \in {"deploy", "metrics"} /\ ~ Known(resp.model_id))
       => (resp.ret = "ValueError" /\ resp.detail = "Model not found" /\ resp.status = 404)
  /\ (resp.op = "get" /\ ~ Known(resp.model_id))
       => (resp.ret = "None" /\ resp.detail = "Model not found" /\ resp.status = 404)
  /\ \A t \in DOMAIN tasks :
       (tasks[t].pc # "scheduled" /\ ~ Known(tasks[t].model_id))
         => (tasks[t].pc = "failed" /\ tasks[t].raised = "Model not found")

\* C6 happens: a get of an unknown id is answered after a fine-tune of an
\* unknown id has raised.
C6_Witness ==
  /\ resp.op = "get"
  /\ ~ Known(resp.model_id)
  /\ \E t \in DOMAIN tasks : tasks[t].pc = "failed" /\ ~ Known(tasks[t].model_id)

\* C7: POST /finetune answers 200 with the "started" message for every id,
\* and the task it adds has not begun when it answers; a task whose id is
\* unknown ends with the error caught, no response sent, and the registry
\* (records, metrics, ids), the reader and the other tasks as they were.
C7_StartedAlways ==
  [][/\ resp'.op = "finetune" =>
          /\ resp'.status = 200
          /\ resp'.detail \in {"Fine-tuning started in background.",
                               "Fine-tuning started in the background."}
          /\ Len(tasks') = Len(tasks) + 1
          /\ tasks'[Len(tasks')].pc = "scheduled"
          /\ tasks'[Len(tasks')].model_id = resp'.model_id
          /\ models' = models /\ heap' = heap
     /\ \A t \in DOMAIN tasks :
          (Steps(t) /\ ~ Known(tasks[t].model_id)) =>
             /\ tasks'[t].pc = "failed"
             /\ tasks'[t].raised = "Model not found"
             /\ resp' = NoResponse
             /\ models' = models /\ heap' = heap /\ rd' = rd
             /\ \A u \in DOMAIN tasks : u # t => tasks'[u] = tasks[u]]_vars

\* C7 happens: a request naming an unknown id is answered "started" after an
\* earlier task with an unknown id has failed.
C7_Witness ==
  /\ resp.op = "finetune"
  /\ ~ Known(resp.model_id)
  /\ resp.status = 200
  /\ \E t \in DOMAIN tasks : tasks[t].pc = "failed" /\ ~ Known(tasks[t].model_id)

\* C8: deploy of a known id ends with deployed = true and returns the record,
\* changing nothing else of it and no other record; on a record that is
\* already deployed it leaves the whole registry as it was.
C8_DeployIdempotent ==
  [][(resp'.op = "deploy" /\ Known(resp'.model_id)) =>
       LET m == resp'.model_id
       IN /\ resp'.status = 200
          /\ resp'.ret = "AIModel"
          /\ models'[m].deployed
          /\ models' = [models EXCEPT ![m].deployed = TRUE]
          /\ heap' = heap
          /\ resp'.body[1].model_id = m
          /\ resp'.body[1].name = models'[m].name
          /\ resp'.body[1].version = models'[m].version
          /\ resp'.body[1].deployed
          /\ models[m].deployed => models' = models]_vars

\* C8 happens: deploy is answered for a record that was already deployed and
\* that a fine-tune has given metrics.
C8_Witness ==
  /\ resp.op = "deploy"
  /\ resp.status = 200
  /\ resp.body[1].wasDeployed
  /\ heap[models[resp.model_id].metrics] # EmptyDict

\* C9: every step of a fine-tune of a known id with empty tuning_params leaves
\* the record's id, name, version and deployed flag as they were and removes
\* no metrics key, and its write stores an accuracy in 800..990 thousandths.
C9_EmptyParams ==
  [][\A t \in DOMAIN tasks :
       (Steps(t) /\ tasks[t].tuning_params = EmptyDict /\ Known(tasks[t].model_id)) =>
          LET m == tasks[t].model_id
              addr == models[m].metrics
          IN /\ models'[m] = models[m]
             /\ DOMAIN heap[addr] \subseteq DOMAIN heap'[addr]
             /\ tasks'[t].pc \in {"wrote_metrics", "done"} =>
                  /\ "accuracy" \in DOMAIN heap'[addr]
                  /\ heap'[addr]["accuracy"] \in 800..990]_vars

\* C9 happens: a fine-tune with empty tuning_params has run to its end.
C9_Witness ==
  \E t \in DOMAIN tasks :
    /\ tasks[t].tuning_params = EmptyDict
    /\ tasks[t].pc = "done"
    /\ "accuracy" \in DOMAIN heap[models[tasks[t].model_id].metrics]

\* A fine-tune is complete, as C10 counts it, once it has stored the accuracy
\* and, when its tuning_params hold a new_version entry, has returned.
Completed(task) ==
  \/ task.pc = "done"
  \/ task.pc = "wrote_metrics" /\ "new_version" \notin DOMAIN task.tuning_params

\* C10: from the answer to POST /finetune for a known id until that
\* fine-tune is complete, the record's version and metrics stay what they
\* were when the request was made, whatever steps are interleaved.
C10_UnchangedUntilComplete ==
  [][\A t \in DOMAIN tasks :
       (Known(tasks[t].model_id) /\ ~ Completed(tasks'[t])) =>
          /\ models'[tasks[t].model_id].version = models[tasks[t].model_id].version
          /\ heap'[models[tasks[t].model_id].metrics]
               = heap[models[tasks[t].model_id].metrics]]_vars

\* C10, the progress half: every fine-tune accepted for a known id returns,
\* and the record then has an accuracy.
C10_EventuallyComplete ==
  \A t \in 1..MaxTasks :
    (IF t \in DOMAIN tasks THEN Known(tasks[t].model_id) ELSE FALSE)
      ~> (IF t \in DOMAIN tasks
          THEN /\ tasks[t].pc = "done"
               /\ "accuracy" \in DOMAIN heap[models[tasks[t].model_id].metrics]
          ELSE FALSE)
====
